---- MODULE Spec2Model ----
(***************************************************************************)
(* ComplyFlow gateway (src/main.py): one POST /chat request, from the      *)
(* resolution of the session id to the serialized ChatResponse or the      *)
(* error surfaced to the caller.                                           *)
(*                                                                         *)
(* Python / JSON values are tagged records:                                *)
(*   [t |-> "null"]                      None / null                       *)
(*   [t |-> "bool", v |-> BOOLEAN]                                         *)
(*   [t |-> "num",  v |-> Int]                                             *)
(*   [t |-> "str",  v |-> sequence of characters; a literal piece of a    *)
(*                        message text may stand as one element]           *)
(*   [t |-> "list", v |-> sequence of values]                              *)
(*   [t |-> "dict", v |-> sequence of <<key, value>> pairs]                *)
(* A call that may raise returns [ok |-> TRUE, v |-> value] or             *)
(* [ok |-> FALSE, exc |-> name of the exception].                          *)
(***************************************************************************)
EXTENDS Integers, Sequences, FiniteSets, TLC

VARIABLES
    pc,               \* position of the request inside chat()
    CURRENT_PLAYBOOK, \* configuration: optional playbook override
    req,              \* ChatRequest
    session_id,       \* local session_id
    url,              \* local url (detectIntent URL)
    token,            \* local token
    vision_http,      \* what the vision service did (None before the call)
    vision_result,    \* local vision_result
    agent_request,    \* the detectIntent request sent (None before)
    agent_http,       \* what the agent did (None before the call)
    df_response,      \* local df_response
    reply_text,       \* local reply_text
    params,           \* local params
    ui,               \* local ui
    debug,            \* locals debug_raw / debug_vision
    response,         \* the JSON body returned to the caller (None before)
    error,            \* the error surfaced to the caller (None if none)
    inflight,         \* the outbound HTTP calls awaiting their answer
    trace             \* the steps of the request taken so far, in order

vars == <<pc, CURRENT_PLAYBOOK, req, session_id, url, token, vision_http,
          vision_result, agent_request, agent_http, df_response, reply_text,
          params, ui, debug, response, error, inflight, trace>>

----------------------------------------------------------------------------
(* Bounds of the explored inputs *)

MaxMsgs == 2          \* response messages in one agent response
MaxFrags == 2         \* text fragments in one response message
LongSessionLen == 38  \* length of the longest supplied session id

(* Program constants *)

SESSION_ID_MAX == 36
VISION_ERROR_TEXT_MAX == 500
HTTP_ERROR_MIN == 400

----------------------------------------------------------------------------
(* Values *)

None == [t |-> "null"]
Bool(b) == [t |-> "bool", v |-> b]
Num(n) == [t |-> "num", v |-> n]
Str(s) == [t |-> "str", v |-> s]
List(s) == [t |-> "list", v |-> s]
Dict(s) == [t |-> "dict", v |-> s]

Ok(x) == [ok |-> TRUE, v |-> x]
Raise(e) == [ok |-> FALSE, exc |-> e]

IsStr(x) == x.t = "str"
IsList(x) == x.t = "list"
IsDict(x) == x.t = "dict"

Min(a, b) == IF a <= b THEN a ELSE b

\* bool(x)
Truthy(x) ==
    CASE x.t = "null" -> FALSE
      [] x.t = "bool" -> x.v
      [] x.t = "num" -> x.v # 0
      [] OTHER -> Len(x.v) > 0

\* x or y
PyOr(x, y) == IF Truthy(x) THEN x ELSE y

HasKey(d, k) == \E i \in 1..Len(d.v) : d.v[i][1] = k

\* d.get(k, default) on a dict d
DictGet(d, k, default) ==
    IF HasKey(d, k)
    THEN d.v[CHOOSE i \in 1..Len(d.v) : d.v[i][1] = k][2]
    ELSE default

\* d[k] = x on a dict d
DictSet(d, k, x) ==
    IF HasKey(d, k)
    THEN Dict([i \in 1..Len(d.v) |-> IF d.v[i][1] = k THEN <<k, x>> ELSE d.v[i]])
    ELSE Dict(Append(d.v, <<k, x>>))

\* s[:n]
Prefix(s, n) == SubSeq(s, 1, Min(Len(s), n))

\* sep.join(ss)
RECURSIVE Join(_, _)
Join(sep, ss) ==
    IF ss = <<>> THEN <<>>
    ELSE IF Len(ss) = 1 THEN ss[1]
    ELSE ss[1] \o sep \o Join(sep, Tail(ss))

Whitespace == {" ", "\n", "\t", "\r"}

RECURSIVE LStrip(_)
LStrip(s) == IF s # <<>> /\ Head(s) \in Whitespace THEN LStrip(Tail(s)) ELSE s

RECURSIVE RStrip(_)
RStrip(s) ==
    IF s # <<>> /\ s[Len(s)] \in Whitespace THEN RStrip(SubSeq(s, 1, Len(s) - 1)) ELSE s

\* s.strip()
Strip(s) == RStrip(LStrip(s))

Digit(d) == <<"0", "1", "2", "3", "4", "5", "6", "7", "8", "9">>[d + 1]

RECURSIVE NatStr(_)
NatStr(n) == IF n < 10 THEN <<Digit(n)>> ELSE NatStr(n \div 10) \o <<Digit(n % 10)>>

IntStr(n) == IF n < 0 THEN <<"-">> \o NatStr(0 - n) ELSE NatStr(n)

\* repr(x)
RECURSIVE PyRepr(_)
PyRepr(x) ==
    CASE x.t = "null" -> <<"N", "o", "n", "e">>
      [] x.t = "bool" -> IF x.v THEN <<"T", "r", "u", "e">> ELSE <<"F", "a", "l", "s", "e">>
      [] x.t = "num" -> IntStr(x.v)
      [] x.t = "str" -> <<"'">> \o x.v \o <<"'">>
      [] x.t = "list" ->
            <<"[">> \o Join(<<",", " ">>, [i \in 1..Len(x.v) |-> PyRepr(x.v[i])]) \o <<"]">>
      [] x.t = "dict" ->
            <<"{">> \o Join(<<",", " ">>, [i \in 1..Len(x.v) |->
                        <<"'", x.v[i][1], "'", ":", " ">> \o PyRepr(x.v[i][2])]) \o <<"}">>

\* str(x)
PyStr(x) == IF x.t = "str" THEN x.v ELSE PyRepr(x)

\* the text of a JSON document
RECURSIVE Dumps(_)
Dumps(x) ==
    CASE x.t = "null" -> <<"n", "u", "l", "l">>
      [] x.t = "bool" -> IF x.v THEN <<"t", "r", "u", "e">> ELSE <<"f", "a", "l", "s", "e">>
      [] x.t = "num" -> IntStr(x.v)
      [] x.t = "str" -> <<"\"">> \o x.v \o <<"\"">>
      [] x.t = "list" ->
            <<"[">> \o Join(<<",">>, [i \in 1..Len(x.v) |-> Dumps(x.v[i])]) \o <<"]">>
      [] x.t = "dict" ->
            <<"{">> \o Join(<<",">>, [i \in 1..Len(x.v) |->
                        <<"\"", x.v[i][1], "\"", ":">> \o Dumps(x.v[i][2])]) \o <<"}">>

----------------------------------------------------------------------------
(* HTTP responses: status_code and the body on the wire, which is either a *)
(* JSON document or plain text.                                            *)

JsonBody(j) == [media |-> "json", doc |-> j]
TextBody(s) == [media |-> "text", chars |-> s]
HttpResponse(code, body) == [kind |-> "response", status_code |-> code, body |-> body]
TransportError(e) == [kind |-> "exception", name |-> e]

\* r.text
Text(r) == IF r.body.media = "json" THEN Dumps(r.body.doc) ELSE r.body.chars

\* r.json()
Json(r) == IF r.body.media = "json" THEN Ok(r.body.doc) ELSE Raise("JSONDecodeError")

----------------------------------------------------------------------------
(* Configuration *)

LANGUAGE_CODE == <<"h", "e">>
DIALOGFLOW_API_BASE == "https://dialogflow.googleapis.com/v3"
AGENT_PATH == "projects/yuvalfrank/locations/us-central1/agents/b470ba36-2b1d-4f48-a334-3bcdc5162445"

\* the fixed fallback reply (the source's text is Hebrew; transliterated)
FALLBACK_REPLY ==
    <<"K", "i", "b", "a", "l", "t", "i", ".", " ", "E", "i", "c", "h", " ",
      "l", "e", "h", "a", "m", "s", "h", "i", "c", "h", "?">>

----------------------------------------------------------------------------
(* SessionIdentity: (req.session_id or str(uuid.uuid4()))[:36] *)

\* variant: the candidate is passed on at its full length
resolve_session_id_untruncated(candidate, fresh) ==
    IF Truthy(candidate) THEN candidate ELSE Str(Prefix(fresh, SESSION_ID_MAX))

resolve_session_id(candidate, fresh) ==
    Str(Prefix(PyOr(candidate, Str(fresh)).v, SESSION_ID_MAX))

detect_intent_url(sid) ==
    [api_base |-> DIALOGFLOW_API_BASE, agent_path |-> AGENT_PATH,
     session |-> sid, method |-> "detectIntent"]

----------------------------------------------------------------------------
(* ResponseNormalizer *)

\* for m in x
IterItems(x) ==
    CASE IsList(x) -> Ok(x.v)
      [] IsDict(x) -> Ok([i \in 1..Len(x.v) |-> Str(<<x.v[i][1]>>)])
      [] IsStr(x) -> Ok([i \in 1..Len(x.v) |-> Str(<<x.v[i]>>)])
      [] OTHER -> Raise("TypeError")

\* [t for t in txt if isinstance(t, str)]
RECURSIVE OnlyStrs(_)
OnlyStrs(xs) ==
    IF xs = <<>> THEN <<>>
    ELSE (IF IsStr(Head(xs)) THEN <<Head(xs).v>> ELSE <<>>) \o OnlyStrs(Tail(xs))

\* the chunks one message contributes
message_chunks(m) ==
    IF ~IsDict(m) THEN Raise("AttributeError")
    ELSE LET inner == PyOr(DictGet(m, "text", None), Dict(<<>>)) IN
         IF ~IsDict(inner) THEN Raise("AttributeError")
         ELSE LET txt == DictGet(inner, "text", None) IN
              Ok(CASE IsList(txt) -> OnlyStrs(txt.v)
                   [] IsStr(txt) -> <<txt.v>>
                   [] OTHER -> <<>>)

\* the loop over msgs; the first message that raises ends it
RECURSIVE collect_chunks(_)
collect_chunks(items) ==
    IF items = <<>> THEN Ok(<<>>)
    ELSE LET mine == message_chunks(Head(items)) IN
         IF ~mine.ok THEN mine
         ELSE LET rest == collect_chunks(Tail(items)) IN
              IF rest.ok THEN Ok(mine.v \o rest.v) ELSE rest

\* variant: the joined text is returned without the strip
join_chunks_unstripped(chunks) ==
    IF chunks # <<>> THEN Join(<<"\n">>, chunks) ELSE FALLBACK_REPLY

\* "\n".join(chunks).strip() if chunks else FALLBACK
join_chunks(chunks) ==
    IF chunks # <<>> THEN Strip(Join(<<"\n">>, chunks)) ELSE FALLBACK_REPLY

\* df_response.get("queryResult", {}) or {}
query_result_of(df) ==
    IF ~IsDict(df) THEN Raise("AttributeError")
    ELSE Ok(PyOr(DictGet(df, "queryResult", Dict(<<>>)), Dict(<<>>)))

extract_reply_text(df) ==
    LET qr == query_result_of(df) IN
    IF ~qr.ok THEN qr
    ELSE IF ~IsDict(qr.v) THEN Raise("AttributeError")
    ELSE LET msgs == PyOr(DictGet(qr.v, "responseMessages", List(<<>>)), List(<<>>))
             items == IterItems(msgs)
         IN IF ~items.ok THEN items
            ELSE LET chunks == collect_chunks(items.v) IN
                 IF ~chunks.ok THEN chunks
                 ELSE Ok(Str(join_chunks(chunks.v)))

extract_session_params(df) ==
    LET qr == query_result_of(df) IN
    IF ~qr.ok THEN qr
    ELSE IF ~IsDict(qr.v) THEN Raise("AttributeError")
    ELSE LET p == PyOr(DictGet(qr.v, "parameters", None), Dict(<<>>)) IN
         Ok(IF IsDict(p) THEN p ELSE Dict(<<>>))

\* str(x) if x is not None else None
str_or_none(x) == IF x = None THEN None ELSE Str(PyStr(x))

checklist_for_ui(p) ==
    LET checklist == PyOr(DictGet(p, "compliance_checklist", None), List(<<>>)) IN
    CASE IsStr(checklist) -> List(<<checklist>>)
      [] IsList(checklist) -> List([i \in 1..Len(checklist.v) |-> Str(PyStr(checklist.v[i]))])
      [] OTHER -> List(<<>>)

normalize_for_ui(p) ==
    [business_profile |-> Dict(<<
        <<"business_stage", str_or_none(DictGet(p, "business_stage", None))>>,
        <<"license_status", str_or_none(DictGet(p, "license_status", None))>>,
        <<"business_tags", str_or_none(DictGet(p, "business_tags", None))>> >>),
     compliance_checklist |-> checklist_for_ui(p)]

----------------------------------------------------------------------------
(* VisionOrchestrator *)

vision_failure(msg) == Dict(<< <<"success", Bool(FALSE)>>, <<"error", Str(msg)>> >>)

\* variant: only the HTTP outcomes are handled, an exception of the POST escapes
call_vision_tool_uncaught(outcome) ==
    IF outcome.kind = "exception" THEN Raise(outcome.name)
    ELSE IF outcome.status_code >= HTTP_ERROR_MIN
    THEN Ok(vision_failure(<<"Vision HTTP ">> \o IntStr(outcome.status_code) \o <<": ">>
                           \o Prefix(Text(outcome), VISION_ERROR_TEXT_MAX)))
    ELSE LET data == Json(outcome) IN
         IF ~data.ok THEN Raise(data.exc)
         ELSE IF ~IsDict(data.v) \/ ~HasKey(data.v, "vision_data")
         THEN Ok(vision_failure(<<"Vision payload missing vision_data">>))
         ELSE Ok(data.v)

\* _call_vision_tool, given what requests.post did
call_vision_tool(outcome) ==
    IF outcome.kind = "exception" THEN Ok(vision_failure(<<outcome.name>>))
    ELSE IF outcome.status_code >= HTTP_ERROR_MIN
    THEN Ok(vision_failure(<<"Vision HTTP ">> \o IntStr(outcome.status_code) \o <<": ">>
                           \o Prefix(Text(outcome), VISION_ERROR_TEXT_MAX)))
    ELSE LET data == Json(outcome) IN
         IF ~data.ok THEN Ok(vision_failure(<<data.exc>>))
         ELSE IF ~IsDict(data.v) \/ ~HasKey(data.v, "vision_data")
         THEN Ok(vision_failure(<<"Vision payload missing vision_data">>))
         ELSE Ok(data.v)

----------------------------------------------------------------------------
(* AgentClient *)

\* variant: an empty image string counts as an image
should_call_vision_not_none(image_data) == image_data # None

\* if req.image_data:
should_call_vision(image_data) == Truthy(image_data)

\* vision_result and vision_result.get("success")
\*   and isinstance(vision_result.get("vision_data"), dict)
vision_usable(vr) ==
    IF ~Truthy(vr) THEN FALSE
    ELSE IF ~Truthy(DictGet(vr, "success", None)) THEN FALSE
    ELSE IsDict(DictGet(vr, "vision_data", None))

build_query_params(vr, playbook) ==
    LET q0 == Dict(<<>>)
        q1 == IF Truthy(playbook) THEN DictSet(q0, "currentPlaybook", playbook) ELSE q0
    IN IF vision_usable(vr)
       THEN DictSet(q1, "parameters",
                    Dict(<< <<"vision_data", DictGet(vr, "vision_data", None)>>,
                            <<"has_image", Bool(TRUE)>> >>))
       ELSE q1

build_agent_body(message, vr, playbook) ==
    LET body == Dict(<< <<"queryInput", Dict(<<
                            <<"languageCode", Str(LANGUAGE_CODE)>>,
                            <<"text", Dict(<< <<"text", message>> >>)>> >>)>> >>)
        query_params == build_query_params(vr, playbook)
    IN IF Truthy(query_params) THEN DictSet(body, "queryParams", query_params) ELSE body

\* variant: every agent failure is reported as a bad gateway
agent_http_error_generic(resp) ==
    [status_code |-> 502, detail |-> Text(resp), exception |-> "HTTPException"]

\* raise HTTPException(status_code=resp.status_code, detail=resp.text)
agent_http_error(resp) ==
    [status_code |-> resp.status_code, detail |-> Text(resp), exception |-> "HTTPException"]

\* an exception nobody handles leaves the endpoint as a 500
internal_error(name) ==
    [status_code |-> 500, detail |-> <<"Internal Server Error">>, exception |-> name]

----------------------------------------------------------------------------
(* GatewayOrchestrator: the response *)

\* os.getenv(name) == "1"
toggle_enabled(value) == value = Str(<<"1">>)

\* variant: the vision result is disclosed whatever the toggle
chat_response_vision_always(sid, reply, u, vr, df, debug_vision, debug_raw) ==
    Dict(<< <<"session_id", sid>>,
            <<"reply", reply>>,
            <<"business_profile", u.business_profile>>,
            <<"compliance_checklist", u.compliance_checklist>>,
            <<"vision_debug", vr>>,
            <<"raw_agent_response", IF debug_raw THEN df ELSE None>> >>)

\* ChatResponse(...), serialized through response_model=ChatResponse:
\* every declared field is written, a None one as null
chat_response(sid, reply, u, vr, df, debug_vision, debug_raw) ==
    Dict(<< <<"session_id", sid>>,
            <<"reply", reply>>,
            <<"business_profile", u.business_profile>>,
            <<"compliance_checklist", u.compliance_checklist>>,
            <<"vision_debug", IF debug_vision THEN vr ELSE None>>,
            <<"raw_agent_response", IF debug_raw THEN df ELSE None>> >>)

----------------------------------------------------------------------------
(* Inputs *)

\* a session id of n characters, every position recognisable
SessionChars(n) == [i \in 1..n |-> Digit(i % 10)]

SessionIds ==
    {None, Str(<<>>), Str(SessionChars(2)), Str(SessionChars(SESSION_ID_MAX)),
     Str(SessionChars(LongSessionLen))}

\* str(uuid.uuid4()): 8-4-4-4-12 hexadecimal digits, version digit 4
Uuid4(c) ==
    [i \in 1..36 |-> IF i \in {9, 14, 19, 24} THEN "-" ELSE IF i = 15 THEN "4" ELSE c]

Uuids == {Uuid4("0"), Uuid4("f")}

Messages == {Str(<<"h", "i">>)}
Images == {None, Str(<<>>), Str(<<"i", "m", "g">>)}
Playbooks == {None, Str(<<"p", "b">>)}
EnvValues == {None, Str(<<"1">>), Str(<<"0">>)}
TokenOutcomes == {Ok(Str(<<"t", "o", "k", "e", "n">>)), Raise("RuntimeError"), Raise("DefaultCredentialsError")}

SignData == Dict(<< <<"business_type", Str(<<"c", "a", "f", "e">>)>> >>)

VisionOutcomes ==
    {TransportError("ConnectionError"), TransportError("Timeout"),
     HttpResponse(500, TextBody([i \in 1..(VISION_ERROR_TEXT_MAX + 1) |-> "x"])),
     HttpResponse(404, JsonBody(Dict(<< <<"vision_data", SignData>> >>))),
     HttpResponse(200, TextBody(<<"o", "k">>)),
     HttpResponse(200, JsonBody(List(<<Str(<<"v">>)>>))),
     HttpResponse(200, JsonBody(Dict(<< <<"success", Bool(TRUE)>> >>))),
     HttpResponse(200, JsonBody(Dict(<< <<"success", Bool(TRUE)>>, <<"vision_data", SignData>> >>))),
     HttpResponse(201, JsonBody(Dict(<< <<"vision_data", SignData>>, <<"success", Bool(TRUE)>>,
                                        <<"model", Str(<<"m">>)>> >>))),
     HttpResponse(200, JsonBody(Dict(<< <<"vision_data", SignData>> >>))),
     HttpResponse(200, JsonBody(Dict(<< <<"success", Bool(FALSE)>>, <<"vision_data", SignData>> >>))),
     HttpResponse(200, JsonBody(Dict(<< <<"success", Bool(TRUE)>>, <<"vision_data", Str(<<"s">>)>> >>)))}

TextOf(t) == Dict(<< <<"text", Dict(<< <<"text", t>> >>)>> >>)
Strs(ss) == List([i \in 1..Len(ss) |-> Str(ss[i])])
QueryResult(q) == Dict(<< <<"queryResult", q>> >>)
WithMessages(ms) == QueryResult(Dict(<< <<"responseMessages", List(ms)>> >>))
WithParameters(p) == QueryResult(Dict(<< <<"parameters", p>> >>))
Checklist(c) == WithParameters(Dict(<< <<"compliance_checklist", c>> >>))

\* agent answers whose shape follows the detectIntent protocol
ProtocolDocs ==
    {Dict(<<>>),
     QueryResult(Dict(<<>>)),
     WithMessages(<<>>),
     WithMessages(<<TextOf(Strs(<<<<"a">>, <<"b">>>>)), TextOf(Str(<<"c">>))>>),
     WithMessages(<<TextOf(Strs(<<<<" ">>>>))>>),
     WithMessages(<<TextOf(Str(<<>>))>>),
     WithMessages(<<Dict(<< <<"payload", Dict(<<>>)>> >>), TextOf(Str(<<" ", "a", "\n">>))>>),
     QueryResult(Dict(<< <<"responseMessages", List(<<TextOf(Str(<<"o", "k">>))>>)>>,
                         <<"parameters", Dict(<< <<"business_stage", Str(<<"n", "e", "w">>)>>,
                                                 <<"license_status", Num(2)>>,
                                                 <<"compliance_checklist",
                                                   Strs(<<<<"x">>, <<"y">>>>)>> >>)>> >>)),
     Checklist(Str(<<"x">>)),
     Checklist(Str(<<>>)),
     Checklist(List(<<>>)),
     Checklist(List(<<Num(12), None, Str(<<"x">>), Bool(TRUE)>>)),
     Checklist(None),
     Checklist(Num(5)),
     Checklist(Dict(<< <<"k", Num(1)>> >>))}

\* agent answers of another shape
OtherDocs ==
    {None,
     List(<<Num(1)>>),
     QueryResult(List(<<Str(<<"x">>)>>)),
     QueryResult(Str(<<"x">>)),
     QueryResult(List(<<>>)),
     QueryResult(Dict(<< <<"responseMessages", Dict(<< <<"k", Num(1)>> >>)>> >>)),
     QueryResult(Dict(<< <<"responseMessages", Num(3)>> >>)),
     WithMessages(<<Str(<<"h", "i">>)>>),
     WithMessages(<<Num(7)>>),
     WithMessages(<<Dict(<< <<"text", Str(<<"h", "i">>)>> >>)>>),
     WithMessages(<<TextOf(List(<<Str(<<"a">>), Num(1)>>))>>),
     WithParameters(List(<<Str(<<"x">>)>>))}

AgentOutcomes ==
    {TransportError("ConnectionError"), TransportError("Timeout"),
     HttpResponse(429, TextBody(<<"q", "u", "o", "t", "a">>)),
     HttpResponse(500, JsonBody(Dict(<< <<"error", Str(<<"b", "o", "o", "m">>)>> >>))),
     HttpResponse(400, JsonBody(WithMessages(<<TextOf(Str(<<"n", "o">>))>>))),
     HttpResponse(200, TextBody(<<"o", "k">>))}
    \cup {HttpResponse(200, JsonBody(d)) : d \in ProtocolDocs \cup OtherDocs}
    \cup {HttpResponse(399, JsonBody(WithMessages(<<TextOf(Str(<<"r">>))>>)))}

----------------------------------------------------------------------------
(* The request *)

Init ==
    /\ pc = "start"
    /\ CURRENT_PLAYBOOK \in Playbooks
    /\ req \in [session_id : SessionIds, message : Messages, image_data : Images]
    /\ session_id = None
    /\ url = None
    /\ token = None
    /\ vision_http = None
    /\ vision_result = None
    /\ agent_request = None
    /\ agent_http = None
    /\ df_response = None
    /\ reply_text = None
    /\ params = None
    /\ ui = None
    /\ debug = None
    /\ response = None
    /\ error = None
    /\ inflight = {}
    /\ trace = <<>>

\* lines 165-167
StartChat ==
    /\ pc = "start"
    /\ \E fresh \in Uuids :
          /\ session_id' = resolve_session_id(req.session_id, fresh)
          /\ url' = detect_intent_url(resolve_session_id(req.session_id, fresh))
    /\ pc' = "auth"
    /\ trace' = Append(trace, "START")
    /\ UNCHANGED <<CURRENT_PLAYBOOK, req, token, vision_http, vision_result, agent_request,
                   agent_http, df_response, reply_text, params, ui, debug, response, error,
                   inflight>>

\* lines 169-173; _get_access_token raises when no token can be obtained
GetAccessToken ==
    /\ pc = "auth"
    /\ \E t \in TokenOutcomes :
          IF t.ok
          THEN /\ token' = t.v
               /\ pc' = "vision_check"
               /\ error' = error
          ELSE /\ token' = token
               /\ pc' = "failed"
               /\ error' = internal_error(t.exc)
    /\ UNCHANGED <<CURRENT_PLAYBOOK, req, session_id, url, vision_http, vision_result,
                   agent_request, agent_http, df_response, reply_text, params, ui, debug,
                   response, inflight, trace>>

\* lines 176-177, no image: the vision call is skipped
VisionSkip ==
    /\ pc = "vision_check"
    /\ ~should_call_vision(req.image_data)
    /\ pc' = "build"
    /\ UNCHANGED <<CURRENT_PLAYBOOK, req, session_id, url, token, vision_http, vision_result,
                   agent_request, agent_http, df_response, reply_text, params, ui, debug,
                   response, error, inflight, trace>>

\* lines 177-178 and 145: the POST to the vision tool leaves
VisionSend ==
    /\ pc = "vision_check"
    /\ should_call_vision(req.image_data)
    /\ pc' = "vision_wait"
    /\ inflight' = inflight \cup {"vision"}
    /\ trace' = Append(trace, "VISION_CALL")
    /\ UNCHANGED <<CURRENT_PLAYBOOK, req, session_id, url, token, vision_http, vision_result,
                   agent_request, agent_http, df_response, reply_text, params, ui, debug,
                   response, error>>

\* lines 145-160: the POST returns or raises, _call_vision_tool returns
VisionReturn ==
    /\ pc = "vision_wait"
    /\ \E o \in VisionOutcomes :
          /\ vision_http' = o
          /\ IF call_vision_tool(o).ok
             THEN /\ vision_result' = call_vision_tool(o).v
                  /\ pc' = "build"
                  /\ error' = error
             ELSE /\ vision_result' = vision_result
                  /\ pc' = "failed"
                  /\ error' = internal_error(call_vision_tool(o).exc)
    /\ inflight' = inflight \ {"vision"}
    /\ UNCHANGED <<CURRENT_PLAYBOOK, req, session_id, url, token, agent_request, agent_http,
                   df_response, reply_text, params, ui, debug, response, trace>>

\* lines 180-201: the detectIntent request is built and leaves
AgentSend ==
    /\ pc = "build"
    /\ agent_request' = [url |-> url,
                         authorization |-> <<"Bearer", token>>,
                         json |-> build_agent_body(req.message, vision_result, CURRENT_PLAYBOOK)]
    /\ pc' = "agent_wait"
    /\ inflight' = inflight \cup {"agent"}
    /\ trace' = Append(trace, "AGENT_CALL")
    /\ UNCHANGED <<CURRENT_PLAYBOOK, req, session_id, url, token, vision_http, vision_result,
                   agent_http, df_response, reply_text, params, ui, debug, response, error>>

\* lines 201-205: the POST returns or raises; status check; resp.json()
AgentReturn(o) ==
    /\ pc = "agent_wait"
    /\ agent_http' = o
    /\ inflight' = inflight \ {"agent"}
    /\ IF o.kind = "exception"
       THEN /\ pc' = "failed"
            /\ error' = internal_error(o.name)
            /\ df_response' = df_response
       ELSE IF o.status_code >= HTTP_ERROR_MIN
       THEN /\ pc' = "failed"
            /\ error' = agent_http_error(o)
            /\ df_response' = df_response
       ELSE IF ~Json(o).ok
       THEN /\ pc' = "failed"
            /\ error' = internal_error(Json(o).exc)
            /\ df_response' = df_response
       ELSE /\ pc' = "normalize"
            /\ error' = error
            /\ df_response' = Json(o).v
    /\ UNCHANGED <<CURRENT_PLAYBOOK, req, session_id, url, token, vision_http, vision_result,
                   agent_request, reply_text, params, ui, debug, response, trace>>

\* lines 207-209
Normalize ==
    /\ pc = "normalize"
    /\ trace' = Append(trace, "NORMALIZE")
    /\ LET r == extract_reply_text(df_response)
           p == extract_session_params(df_response)
       IN IF ~r.ok
          THEN /\ pc' = "failed"
               /\ error' = internal_error(r.exc)
               /\ UNCHANGED <<reply_text, params, ui>>
          ELSE IF ~p.ok
          THEN /\ pc' = "failed"
               /\ error' = internal_error(p.exc)
               /\ reply_text' = r.v
               /\ UNCHANGED <<params, ui>>
          ELSE /\ pc' = "respond"
               /\ error' = error
               /\ reply_text' = r.v
               /\ params' = p.v
               /\ ui' = normalize_for_ui(p.v)
    /\ UNCHANGED <<CURRENT_PLAYBOOK, req, session_id, url, token, vision_http, vision_result,
                   agent_request, agent_http, df_response, debug, response, inflight>>

\* lines 211-221, and the serialization of the returned ChatResponse
Respond ==
    /\ pc = "respond"
    /\ \E raw \in EnvValues, vis \in EnvValues :
          /\ debug' = [debug_raw |-> toggle_enabled(raw), debug_vision |-> toggle_enabled(vis)]
          /\ response' = chat_response(session_id, reply_text, ui, vision_result, df_response,
                                       toggle_enabled(vis), toggle_enabled(raw))
    /\ pc' = "responded"
    /\ trace' = Append(trace, "RESPOND")
    /\ UNCHANGED <<CURRENT_PLAYBOOK, req, session_id, url, token, vision_http, vision_result,
                   agent_request, agent_http, df_response, reply_text, params, ui, error,
                   inflight>>

Next ==
    \/ StartChat
    \/ GetAccessToken
    \/ VisionSkip
    \/ VisionSend
    \/ VisionReturn
    \/ AgentSend
    \/ \E o \in AgentOutcomes : AgentReturn(o)
    \/ Normalize
    \/ Respond

Spec == Init /\ [][Next]_vars

----------------------------------------------------------------------------
(* The normalizer on its own: one request waiting for the agent's answer,  *)
(* the answer drawn from every protocol-shaped document within the bounds. *)

FragTexts == {<<>>, <<" ">>, <<" ", "a">>, <<"b">>}

SeqsUpTo(S, n) == UNION {[1..k -> S] : k \in 0..n}

ExtractMessages ==
    {TextOf(Strs(fs)) : fs \in SeqsUpTo(FragTexts, MaxFrags)}
    \cup {TextOf(Str(f)) : f \in FragTexts}
    \cup {Dict(<< <<"payload", Dict(<<>>)>> >>)}

ExtractDocs ==
    {WithMessages(ms) : ms \in SeqsUpTo(ExtractMessages, MaxMsgs)}
    \cup {Dict(<<>>), QueryResult(Dict(<<>>))}

ExtractOutcomes == {HttpResponse(200, JsonBody(d)) : d \in ExtractDocs}

InitExtract ==
    /\ pc = "agent_wait"
    /\ CURRENT_PLAYBOOK = None
    /\ req = [session_id |-> None, message |-> Str(<<"h", "i">>), image_data |-> None]
    /\ session_id = Str(Uuid4("0"))
    /\ url = detect_intent_url(Str(Uuid4("0")))
    /\ token = Str(<<"t", "o", "k", "e", "n">>)
    /\ vision_http = None
    /\ vision_result = None
    /\ agent_request = [url |-> detect_intent_url(Str(Uuid4("0"))),
                        authorization |-> <<"Bearer", Str(<<"t", "o", "k", "e", "n">>)>>,
                        json |-> build_agent_body(Str(<<"h", "i">>), None, None)]
    /\ agent_http = None
    /\ df_response = None
    /\ reply_text = None
    /\ params = None
    /\ ui = None
    /\ debug = None
    /\ response = None
    /\ error = None
    /\ inflight = {"agent"}
    /\ trace = <<"START", "AGENT_CALL">>

NextExtract ==
    \/ \E o \in ExtractOutcomes : AgentReturn(o)
    \/ Normalize
    \/ Respond

SpecExtract == InitExtract /\ [][NextExtract]_vars

----------------------------------------------------------------------------
(* Properties *)

Steps == {trace[i] : i \in 1..Len(trace)}

IsPrefixOf(s, t) == Len(s) <= Len(t) /\ \A i \in 1..Len(s) : s[i] = t[i]

\* the agent answered with a status below 400 and a JSON document
AgentAnswered ==
    /\ agent_http # None
    /\ agent_http.kind = "response"
    /\ agent_http.status_code < 400
    /\ agent_http.body.media = "json"

\* the first n characters of s
FirstChars(s, n) == [i \in 1..(IF Len(s) < n THEN Len(s) ELSE n) |-> s[i]]

\* s without its leading and trailing whitespace
Trimmed(s) ==
    LET solid == {i \in 1..Len(s) : s[i] \notin Whitespace} IN
    IF solid = {} THEN <<>>
    ELSE SubSeq(s, CHOOSE i \in solid : \A j \in solid : i <= j,
                   CHOOSE i \in solid : \A j \in solid : j <= i)

RECURSIVE Lines(_)
Lines(fs) ==
    IF fs = <<>> THEN <<>>
    ELSE IF Len(fs) = 1 THEN fs[1]
    ELSE Lines(SubSeq(fs, 1, Len(fs) - 1)) \o <<"\n">> \o fs[Len(fs)]

RECURSIVE Flatten(_)
Flatten(ss) == IF ss = <<>> THEN <<>> ELSE Flatten(SubSeq(ss, 1, Len(ss) - 1)) \o ss[Len(ss)]

\* a text payload of the protocol: a string or a list of strings
WellFormedText(x) == IsStr(x) \/ (IsList(x) /\ \A i \in 1..Len(x.v) : IsStr(x.v[i]))

WellFormedMessage(m) ==
    /\ IsDict(m)
    /\ HasKey(m, "text") =>
          /\ IsDict(DictGet(m, "text", None))
          /\ HasKey(DictGet(m, "text", None), "text") =>
                WellFormedText(DictGet(DictGet(m, "text", None), "text", None))

WellFormedQueryResult(q) ==
    /\ IsDict(q)
    /\ HasKey(q, "responseMessages") =>
          /\ IsList(DictGet(q, "responseMessages", None))
          /\ \A i \in 1..Len(DictGet(q, "responseMessages", None).v) :
                WellFormedMessage(DictGet(q, "responseMessages", None).v[i])
    /\ HasKey(q, "parameters") => IsDict(DictGet(q, "parameters", None))

\* an agent answer of the shape the detectIntent protocol gives
WellFormedDoc(d) ==
    /\ IsDict(d)
    /\ HasKey(d, "queryResult") => WellFormedQueryResult(DictGet(d, "queryResult", None))

\* the text fragments of one well-formed message, in list order
MessageFragments(m) ==
    IF ~HasKey(m, "text") \/ ~HasKey(DictGet(m, "text", None), "text") THEN <<>>
    ELSE LET x == DictGet(DictGet(m, "text", None), "text", None) IN
         IF IsStr(x) THEN <<x.v>> ELSE [i \in 1..Len(x.v) |-> x.v[i].v]

\* the text fragments of a well-formed answer, in message order
DocFragments(d) ==
    IF ~HasKey(d, "queryResult") \/ ~HasKey(DictGet(d, "queryResult", None), "responseMessages")
    THEN <<>>
    ELSE LET ms == DictGet(DictGet(d, "queryResult", None), "responseMessages", None).v IN
         Flatten([i \in 1..Len(ms) |-> MessageFragments(ms[i])])

ExpectedReply(d) ==
    IF DocFragments(d) = <<>> THEN FALLBACK_REPLY ELSE Trimmed(Lines(DocFragments(d)))

\* C1: the session_id of a response is the supplied non-empty id cut to its
\* first 36 characters, otherwise a freshly generated non-empty id of at most
\* 36 characters; it is the id of the detectIntent URL of the request.
C1_SessionId ==
    pc = "responded" =>
       LET sid == DictGet(response, "session_id", None) IN
       /\ IF req.session_id # None /\ req.session_id.v # <<>>
          THEN sid = Str(FirstChars(req.session_id.v, 36))
          ELSE sid.v \in Uuids /\ sid.v # <<>> /\ Len(sid.v) <= 36
       /\ sid = agent_request.url.session

C1_Witness ==
    /\ pc = "responded"
    /\ req.session_id # None
    /\ Len(req.session_id.v) > 36
    /\ Len(DictGet(response, "session_id", None).v) = 36

\* C2: with an image, a token and a well-formed agent answer below 400, no
\* outcome of the vision call fails the request: it reaches the agent call
\* and ends in a response whose reply is the agent's text.
C2_VisionSoftFail ==
    (Truthy(req.image_data) /\ vision_http # None) =>
       /\ pc = "failed" => agent_http # None
       /\ (AgentAnswered /\ WellFormedDoc(agent_http.body.doc) /\ pc \in {"failed", "responded"}) =>
             /\ pc = "responded"
             /\ DictGet(response, "reply", None) = Str(ExpectedReply(agent_http.body.doc))

C2_Witness ==
    /\ pc = "responded"
    /\ vision_http # None
    /\ vision_http.kind = "exception"
    /\ DictGet(response, "reply", None) = Str(<<"a", "\n", "b", "\n", "c">>)

\* C3: an agent status of 400 or more fails the request with that status and
\* the agent's body as detail; nothing is extracted and no response is built.
C3_AgentErrorPassthrough ==
    (agent_http # None /\ agent_http.kind = "response" /\ agent_http.status_code >= 400) =>
       /\ pc = "failed"
       /\ error # None
       /\ error.status_code = agent_http.status_code
       /\ error.detail = Text(agent_http)
       /\ "NORMALIZE" \notin Steps
       /\ reply_text = None /\ params = None /\ ui = None
       /\ response = None

C3_Witness ==
    /\ pc = "failed"
    /\ agent_http # None
    /\ agent_http.kind = "response"
    /\ agent_http.status_code = 429
    /\ vision_http # None
    /\ error.status_code = 429

C5_ExtractionNeverRaises ==
    (AgentAnswered /\ IsDict(agent_http.body.doc)) => pc # "failed"

\* C6: compliance_checklist maps a string to the one-element sequence of it,
\* a sequence to its elements coerced to string in order, anything else to
\* the empty sequence.
C6_ChecklistMapping ==
    ui # None =>
       LET c == DictGet(params, "compliance_checklist", None)
           out == ui.compliance_checklist.v
       IN IF IsStr(c) THEN out = <<c>>
          ELSE IF IsList(c)
          THEN /\ Len(out) = Len(c.v)
               /\ \A i \in 1..Len(out) : out[i] = Str(PyStr(c.v[i]))
          ELSE out = <<>>

\* C7: for a well-formed agent answer the reply is the text fragments in
\* message order and list order, joined by newlines and trimmed; it is the
\* fallback exactly when there is no fragment.
C7_ReplyText ==
    (WellFormedDoc(df_response) /\ "NORMALIZE" \in Steps) =>
       /\ pc # "failed"
       /\ reply_text = Str(ExpectedReply(df_response))
       /\ reply_text = Str(FALLBACK_REPLY) <=> DocFragments(df_response) = <<>>

C7_Witness ==
    /\ pc = "respond"
    /\ Len(DocFragments(df_response)) = 3
    /\ reply_text = Str(<<"a", "\n", "\n", "b">>)

\* C8: the reply of every response is a non-empty string.
C8_ReplyNonEmpty ==
    pc = "responded" => DictGet(response, "reply", None).v # <<>>

\* C9: a vision answer below 400 that is a JSON object with vision_data gives
\* a successful vision result with that payload, and the agent request
\* carries the payload and has_image = true in its parameters.
C9_VisionDataForwarded ==
    (/\ vision_http # None
     /\ vision_http.kind = "response"
     /\ vision_http.status_code < 400
     /\ vision_http.body.media = "json"
     /\ IsDict(vision_http.body.doc)
     /\ HasKey(vision_http.body.doc, "vision_data")) =>
       LET payload == DictGet(vision_http.body.doc, "vision_data", None) IN
       /\ DictGet(vision_result, "success", None) = Bool(TRUE)
       /\ DictGet(vision_result, "vision_data", None) = payload
       /\ agent_request # None =>
             LET q == DictGet(agent_request.json, "queryParams", Dict(<<>>))
                 ps == DictGet(q, "parameters", Dict(<<>>))
             IN /\ DictGet(ps, "vision_data", None) = payload
                /\ DictGet(ps, "has_image", None) = Bool(TRUE)

\* C10: the steps of a request come in the order START, VISION_CALL (exactly
\* when the image is non-empty), AGENT_CALL, NORMALIZE, RESPOND, each at most
\* once; the two outbound calls are never in flight together, and a response
\* exists only after the agent answered below 400.
C10_StepOrder ==
    /\ \/ IsPrefixOf(trace, <<"START", "VISION_CALL", "AGENT_CALL", "NORMALIZE", "RESPOND">>)
       \/ IsPrefixOf(trace, <<"START", "AGENT_CALL", "NORMALIZE", "RESPOND">>)
    /\ "VISION_CALL" \in Steps => Truthy(req.image_data)
    /\ "AGENT_CALL" \in Steps =>
          /\ "VISION_CALL" \in Steps <=> Truthy(req.image_data)
          /\ "VISION_CALL" \in Steps => vision_http # None
          /\ "vision" \notin inflight
    /\ Cardinality(inflight) <= 1
    /\ "NORMALIZE" \in Steps => AgentAnswered
    /\ response # None <=> "RESPOND" \in Steps
    /\ agent_request # None <=> "AGENT_CALL" \in Steps

C10_Witness ==
    /\ pc = "responded"
    /\ trace = <<"START", "VISION_CALL", "AGENT_CALL", "NORMALIZE", "RESPOND">>
    /\ vision_http # None
    /\ vision_http.kind = "response"
    /\ vision_http.status_code >= 400

====
